---- MODULE Spec2Model ----
(***************************************************************************)
(* Model of scripts/apply-20260205-patch.py ("main") and                   *)
(* scripts/apply-20260205-patch-pvp.py ("pvp"): two JSON stores are loaded, *)
(* a table of mechanical edits and a list of description edits are applied *)
(* in memory, and both files are rewritten when the failure gate passes.   *)
(*                                                                         *)
(* A store is a function from string keys to records; a record is a        *)
(* function from field names to values.  A text is a sequence of           *)
(* characters.  The change tables are literal data of the scripts; here    *)
(* they are inputs drawn from bounded sets.                                *)
(***************************************************************************)
EXTENDS Integers, Sequences, FiniteSets, TLC

VARIABLES
    script,        \* which script runs: "main" or "pvp"
    disk_data,     \* skilldata.json: [doc |-> its 'skilldata' mapping, keys |-> the ids in
                   \* file order, layout |-> its whitespace]
    disk_desc,     \* skilldesc-en.json: [doc |-> its 'skilldesc' mapping, keys, layout]
    orig_data,     \* content of skilldata.json when the current run loaded it
    orig_desc,     \* content of skilldesc-en.json when the current run loaded it
    skilldata,     \* in-memory mechanical store (sd)
    skilldesc,     \* in-memory description store (sd / dd)
    key_order,     \* the ids of the two in-memory stores in dict order: [data |-> .., desc |-> ..]
    mech_changes,  \* the mechanical table: sequence of <<skill_id, updates>>
    desc_changes,  \* the description list: sequence of <<skill_id, field, old, new>>
    pc,            \* position of the process
    i,             \* index of the current entry of mech_changes
    j,             \* index of the current field of that entry's updates
    k,             \* index of the current edit of desc_changes
    mech_applied,  \* applied / mech_count / mech_applied
    desc_applied,  \* applied / desc_applied
    failed,        \* the counter the gate tests: desc_failed (main), failed (pvp)
    written,       \* the files save_json has rewritten during the current run
    out,           \* the lines printed during the current run
    run            \* 1 + the number of earlier runs that rewrote the files

vars == <<script, disk_data, disk_desc, orig_data, orig_desc, skilldata, skilldesc,
          key_order, mech_changes, desc_changes, pc, i, j, k, mech_applied, desc_applied,
          failed, written, out, run>>

----------------------------------------------------------------------------
(* Bounds of the model *)

MaxMech == 2     \* entries of the mechanical table
MaxDesc == 2     \* edits of the description list (structure inputs)
MaxLen == 3      \* length of a loaded text (text inputs)
MaxPat == 2      \* length of old_text and new_text (text inputs)
MaxReruns == 1   \* runs started again after a run that rewrote the files

----------------------------------------------------------------------------
(* Python primitives used by the scripts *)

Digit(d) == <<"0", "1", "2", "3", "4", "5", "6", "7", "8", "9">>[d + 1]

RECURSIVE str(_)
\* str(skill_id): the decimal representation of a non-negative int
str(n) == IF n < 10 THEN Digit(n) ELSE str(n \div 10) \o Digit(n % 10)

\* text[p : p + n] for a 0-based offset p
Slice(text, p, n) == SubSeq(text, p + 1, p + n)

\* the offsets at which old occurs in text
Occurrences(text, old) ==
    {p \in 0..(Len(text) - Len(old)) : Slice(text, p, Len(old)) = old}

\* a test that looks for old at the start of the text only
StartsWith(text, old) == 0 \in Occurrences(text, old)

\* old_text in entry[field]
Contains(text, old) == Occurrences(text, old) # {}

\* text.find(old) for a text that contains old
Find(text, old) == CHOOSE p \in Occurrences(text, old) :
                       \A q \in Occurrences(text, old) : p <= q

\* entry[field].replace(old_text, new_text, 1)
ReplaceFirst(text, old, new) ==
    IF ~Contains(text, old) THEN text
    ELSE LET p == Find(text, old)
         IN  Slice(text, 0, p) \o new \o Slice(text, p + Len(old), Len(text) - p - Len(old))

\* key in sd
HasKey(store, key) == key \in DOMAIN store

\* an assignment that rebuilds the record from the written field
SetFieldOnly(store, key, field, val) == [store EXCEPT ![key] = (field :> val)]

\* an assignment that stores the value under the record's name as well
SetFieldAndName(store, key, field, val) ==
    [store EXCEPT ![key] = [f \in DOMAIN @ |-> IF f \in {field, "name"} THEN val ELSE @[f]]]

\* an assignment made in every record that holds the field
SetFieldEverywhere(store, key, field, val) ==
    [q \in DOMAIN store |->
        IF field \in DOMAIN store[q] THEN [store[q] EXCEPT ![field] = val] ELSE store[q]]

\* sd[key][field] = new_val
SetField(store, key, field, val) == [store EXCEPT ![key][field] = val]

\* json.load(f): the tree of the file, whatever its whitespace
load_json(file) == file.doc

\* json.dump with sort_keys=True: the ids are written in sorted order
save_json_sorted(data, keys) ==
    LET present == {d \in 0..9 : Digit(d) \in DOMAIN data}
    IN  [doc |-> data,
         keys |-> [n \in 1..Len(keys) |->
                      Digit(CHOOSE d \in present :
                                Cardinality({r \in present : r < d}) = n - 1)],
         layout |-> "tabs"]

\* json.dump(data, f, ensure_ascii=False, indent='\t') and a trailing newline: the
\* members of data are written in dict order, keys being that order for the ids
save_json(data, keys) == [doc |-> data, keys |-> keys, layout |-> "tabs"]

\* print(...): one line per call
Emit(lines) == out' = out \o lines

----------------------------------------------------------------------------
(* Inputs: the two files and the two change tables *)

SeqsUpTo(S, n) == UNION {[1..m -> S] : m \in 0..n}

Distinct(s) == \A a, b \in 1..Len(s) : a # b => s[a] # s[b]

Project(s, n) == [a \in 1..Len(s) |-> s[a][n]]

StoresOf(keys, records) == UNION {[K -> records] : K \in SUBSET keys}

IDs == {1, 2}

Keys == {str(n) : n \in IDs}

MechFields == {"energy", "recharge"}

LoadedVal(f) == IF f = "energy" THEN 10 ELSE 20

NewVals == {5, 25}

MechRecords == {[f \in S |-> LoadedVal(f)] : S \in SUBSET MechFields}

MechStores == StoresOf(Keys, MechRecords)

\* a dict literal {field: new_val, ...}: distinct fields, at least one, in insertion order
UpdatesSet == {u \in SeqsUpTo(MechFields \X NewVals, Cardinality(MechFields)) :
                   Len(u) >= 1 /\ Distinct(Project(u, 1))}

\* a dict literal {skill_id: updates, ...}: distinct ids, in insertion order
MechTables == {t \in SeqsUpTo(IDs \X UpdatesSet, MaxMech) : Distinct(Project(t, 1))}

Alphabet == {"a", "b"}

Texts(n) == SeqsUpTo(Alphabet, n)

DescFields == {"description", "concise"}

\* the values the format comment of the main script gives for field
EditFields == DescFields \cup {"both"}

LoadedText(f) == IF f = "name" THEN <<"n">>
                 ELSE IF f = "description" THEN <<"a", "b">> ELSE <<"b", "a">>

\* a record holds name, description and concise; one may lack name, one may lack concise
DescRecords == {[f \in S |-> LoadedText(f)] :
                    S \in {{"name"} \cup DescFields, DescFields, {"name", "description"}}}

DescStores == StoresOf(Keys, DescRecords)

SmallPairs == {<<<<"a">>, <<"b">>>>, <<<<"b", "b">>, <<"a">>>>}

SmallEdits == {<<id, f, p[1], p[2]>> : id \in IDs, f \in EditFields, p \in SmallPairs}

DescLists == SeqsUpTo(SmallEdits, MaxDesc)

\* old_text is never empty in the tables of the scripts
TextEdits == {<<1, "description", old, new>> :
                  old \in Texts(MaxPat) \ {<<>>}, new \in Texts(MaxPat)}

SmallMech == {[data |-> ("1" :> [energy |-> 10]), mech |-> <<<<1, <<<<"energy", 5>>>>>>>>]}

SmallDesc == {[desc |-> ("1" :> [name |-> <<"n">>, description |-> <<"a", "b">>]),
               changes |-> <<<<1, "description", p[1], p[2]>>>>] : p \in SmallPairs}

Input(m, d) == [data |-> m.data, mech |-> m.mech, desc |-> d.desc, changes |-> d.changes]

\* rich mechanical inputs, small description inputs
MechSlice == {Input([data |-> s, mech |-> t], d) :
                  s \in MechStores, t \in MechTables, d \in SmallDesc}

\* rich description stores and lists over fixed texts, small mechanical inputs
DescSlice == {Input(m, [desc |-> s, changes |-> c]) :
                  m \in SmallMech, s \in DescStores, c \in DescLists}

\* one record, one edit, every text and every pattern within the bounds
TextSlice == {Input(m, [desc |-> ("1" :> [name |-> <<"n">>, description |-> t]),
                        changes |-> <<e>>]) :
                  m \in SmallMech, t \in Texts(MaxLen), e \in TextEdits}

\* every pair of stores, no edit in either table
ZeroSlice == {[data |-> s, mech |-> <<>>, desc |-> d, changes |-> <<>>] :
                  s \in MechStores, d \in DescStores}

Inputs == MechSlice \cup DescSlice \cup TextSlice \cup ZeroSlice

\* the orders in which a file can list the ids of its store
Orders(S) == {o \in [1..Cardinality(S) -> S] : Distinct(o)}

----------------------------------------------------------------------------
(* The state before main() runs: the files exist, nothing is loaded *)

Layouts == {"tabs", "other"}

Init ==
    /\ script \in {"main", "pvp"}
    /\ \E in \in Inputs, layout \in Layouts :
        \E o1 \in Orders(DOMAIN in.data), o2 \in Orders(DOMAIN in.desc) :
            /\ disk_data = [doc |-> in.data, keys |-> o1, layout |-> layout]
            /\ disk_desc = [doc |-> in.desc, keys |-> o2, layout |-> layout]
            /\ mech_changes = in.mech
            /\ desc_changes = in.changes
    /\ orig_data = disk_data
    /\ orig_desc = disk_desc
    /\ skilldata = <<>>
    /\ skilldesc = <<>>
    /\ key_order = [data |-> <<>>, desc |-> <<>>]
    /\ pc = "load"
    /\ i = 1
    /\ j = 1
    /\ k = 1
    /\ mech_applied = 0
    /\ desc_applied = 0
    /\ failed = 0
    /\ written = {}
    /\ out = <<>>
    /\ run = 1

----------------------------------------------------------------------------
(* main(): load both files *)

NotLoaded == [data |-> <<>>, desc |-> <<>>]

Fresh ==
    /\ skilldata' = <<>>
    /\ skilldesc' = <<>>
    /\ key_order' = NotLoaded
    /\ i' = 1
    /\ j' = 1
    /\ k' = 1
    /\ mech_applied' = 0
    /\ desc_applied' = 0
    /\ failed' = 0
    /\ written' = {}
    /\ out' = <<>>

Header == IF script = "main" THEN <<<<"header">>, <<"header">>, <<"header">>>>
          ELSE <<<<"header">>>>

Load ==
    /\ pc = "load"
    /\ skilldata' = load_json(disk_data)
    /\ skilldesc' = load_json(disk_desc)
    /\ key_order' = [data |-> disk_data.keys, desc |-> disk_desc.keys]
    /\ Emit(<<<<"loading">>>> \o Header)
    /\ pc' = "mech"
    /\ UNCHANGED <<script, disk_data, disk_desc, orig_data, orig_desc, mech_changes,
                   desc_changes, i, j, k, mech_applied, desc_applied, failed, written, run>>

----------------------------------------------------------------------------
(* The mechanical loop: for skill_id, updates in changes.items() *)

InMech == pc = "mech" /\ i <= Len(mech_changes)

mech_id == mech_changes[i][1]

updates == mech_changes[i][2]

mech_key == str(mech_id)

mech_field == updates[j][1]

new_val == updates[j][2]

\* a mechanical lookup miss that no script counts
MissNotCounted == failed

\* the failure counter after a mechanical lookup miss
MissCount == IF script = "pvp" THEN failed + 1 ELSE failed

MechNotFound ==
    /\ InMech
    /\ ~HasKey(skilldata, mech_key)
    /\ Emit(<<<<"mech_warn", mech_id>>>>)
    /\ failed' = MissCount
    /\ i' = i + 1
    /\ j' = 1
    /\ UNCHANGED <<script, key_order, disk_data, disk_desc, orig_data, orig_desc,
                   skilldata, skilldesc,
                   mech_changes, desc_changes, pc, k, mech_applied, desc_applied, written, run>>

MechWrite ==
    /\ InMech
    /\ HasKey(skilldata, mech_key)
    /\ mech_field \in DOMAIN skilldata[mech_key]
    /\ LET old_val == skilldata[mech_key][mech_field]
       IN  /\ skilldata' = SetField(skilldata, mech_key, mech_field, new_val)
           /\ Emit(<<<<"mech_ok", mech_id, mech_field, old_val, new_val>>>>)
    /\ mech_applied' = mech_applied + 1
    /\ IF j < Len(updates) THEN i' = i /\ j' = j + 1 ELSE i' = i + 1 /\ j' = 1
    /\ UNCHANGED <<script, key_order, disk_data, disk_desc, orig_data, orig_desc, skilldesc,
                   mech_changes, desc_changes, pc, k, desc_applied, failed, written, run>>

\* the KeyError caught around the field update: the field is skipped, the loop goes on
MechFieldSkipped ==
    /\ InMech
    /\ HasKey(skilldata, mech_key)
    /\ mech_field \notin DOMAIN skilldata[mech_key]
    /\ IF j < Len(updates) THEN i' = i /\ j' = j + 1 ELSE i' = i + 1 /\ j' = 1
    /\ UNCHANGED <<script, key_order, disk_data, disk_desc, orig_data, orig_desc, skilldata,
                   skilldesc, mech_changes, desc_changes, pc, k, mech_applied, desc_applied,
                   failed, written, out, run>>

\* the assignment made without the read of old_val before it: the field is created
MechCreatesField ==
    /\ InMech
    /\ HasKey(skilldata, mech_key)
    /\ mech_field \notin DOMAIN skilldata[mech_key]
    /\ skilldata' = [skilldata EXCEPT ![mech_key] = (mech_field :> new_val) @@ @]
    /\ Emit(<<<<"mech_ok", mech_id, mech_field, new_val, new_val>>>>)
    /\ mech_applied' = mech_applied + 1
    /\ IF j < Len(updates) THEN i' = i /\ j' = j + 1 ELSE i' = i + 1 /\ j' = 1
    /\ UNCHANGED <<script, key_order, disk_data, disk_desc, orig_data, orig_desc, skilldesc,
                   mech_changes, desc_changes, pc, k, desc_applied, failed, written, run>>

\* old_val = sd[key][field] raises KeyError: nothing catches it
MechKeyError ==
    /\ InMech
    /\ HasKey(skilldata, mech_key)
    /\ mech_field \notin DOMAIN skilldata[mech_key]
    /\ pc' = "raised"
    /\ UNCHANGED <<script, key_order, disk_data, disk_desc, orig_data, orig_desc,
                   skilldata, skilldesc,
                   mech_changes, desc_changes, i, j, k, mech_applied, desc_applied, failed,
                   written, out, run>>

\* the mechanical file saved as soon as its own loop has ended
MechDoneSaves ==
    /\ pc = "mech"
    /\ i > Len(mech_changes)
    /\ Emit((IF script = "main" THEN <<<<"mech_summary", mech_applied>>>> ELSE <<>>) \o Header)
    /\ disk_data' = save_json(skilldata, key_order.data)
    /\ written' = written \cup {"skilldata.json"}
    /\ pc' = "desc"
    /\ UNCHANGED <<script, key_order, disk_desc, orig_data, orig_desc, skilldata, skilldesc,
                   mech_changes, desc_changes, i, j, k, mech_applied, desc_applied, failed,
                   run>>

MechDone ==
    /\ pc = "mech"
    /\ i > Len(mech_changes)
    /\ Emit((IF script = "main" THEN <<<<"mech_summary", mech_applied>>>> ELSE <<>>) \o Header)
    /\ pc' = "desc"
    /\ UNCHANGED <<script, key_order, disk_data, disk_desc, orig_data, orig_desc,
                   skilldata, skilldesc,
                   mech_changes, desc_changes, i, j, k, mech_applied, desc_applied, failed,
                   written, run>>

----------------------------------------------------------------------------
(* The description loop: for skill_id, field, old_text, new_text in changes *)

InDesc == pc = "desc" /\ k <= Len(desc_changes)

desc_id == desc_changes[k][1]

desc_field == desc_changes[k][2]

old_text == desc_changes[k][3]

new_text == desc_changes[k][4]

desc_key == str(desc_id)

entry == skilldesc[desc_key]

HasField == HasKey(skilldesc, desc_key) /\ desc_field \in DOMAIN entry

HasName == "name" \in DOMAIN entry

DescNotFound ==
    /\ InDesc
    /\ ~HasKey(skilldesc, desc_key)
    /\ Emit(<<<<"desc_warn_id", desc_id>>>>)
    /\ failed' = failed + 1
    /\ k' = k + 1
    /\ UNCHANGED <<script, key_order, disk_data, disk_desc, orig_data, orig_desc,
                   skilldata, skilldesc,
                   mech_changes, desc_changes, pc, i, j, mech_applied, desc_applied,
                   written, run>>

\* entry[field] raises KeyError: nothing catches it
DescFieldKeyError ==
    /\ InDesc
    /\ HasKey(skilldesc, desc_key)
    /\ desc_field \notin DOMAIN entry
    /\ pc' = "raised"
    /\ UNCHANGED <<script, key_order, disk_data, disk_desc, orig_data, orig_desc,
                   skilldata, skilldesc,
                   mech_changes, desc_changes, i, j, k, mech_applied, desc_applied, failed,
                   written, out, run>>

\* the warning printed without the line that shows the current value
DescNoMatchOneLine ==
    /\ InDesc
    /\ HasField
    /\ ~Contains(entry[desc_field], old_text)
    /\ HasName
    /\ Emit(<<<<"desc_warn_text", desc_id, entry["name"], old_text, desc_field>>>>)
    /\ failed' = failed + 1
    /\ k' = k + 1
    /\ UNCHANGED <<script, key_order, disk_data, disk_desc, orig_data, orig_desc, skilldata,
                   skilldesc, mech_changes, desc_changes, pc, i, j, mech_applied,
                   desc_applied, written, run>>

DescNoMatch ==
    /\ InDesc
    /\ HasField
    /\ ~Contains(entry[desc_field], old_text)
    /\ HasName
    /\ Emit(<<<<"desc_warn_text", desc_id, entry["name"], old_text, desc_field>>,
              <<"desc_current", entry[desc_field]>>>>)
    /\ failed' = failed + 1
    /\ k' = k + 1
    /\ UNCHANGED <<script, key_order, disk_data, disk_desc, orig_data, orig_desc,
                   skilldata, skilldesc,
                   mech_changes, desc_changes, pc, i, j, mech_applied, desc_applied,
                   written, run>>

\* the warning's entry['name'] raises KeyError before failed += 1
DescNoMatchKeyError ==
    /\ InDesc
    /\ HasField
    /\ ~Contains(entry[desc_field], old_text)
    /\ ~HasName
    /\ pc' = "raised"
    /\ UNCHANGED <<script, key_order, disk_data, disk_desc, orig_data, orig_desc,
                   skilldata, skilldesc,
                   mech_changes, desc_changes, i, j, k, mech_applied, desc_applied, failed,
                   written, out, run>>

\* the edit tested and made on the text the run loaded, not on the current one
DescApplyOnLoaded ==
    /\ InDesc
    /\ HasField
    /\ HasName
    /\ LET loaded == load_json(orig_desc)[desc_key][desc_field]
       IN  /\ Contains(loaded, old_text)
           /\ skilldesc' = SetField(skilldesc, desc_key, desc_field,
                                    ReplaceFirst(loaded, old_text, new_text))
    /\ Emit(<<<<"desc_ok", desc_id, entry["name"], desc_field, old_text, new_text>>>>)
    /\ desc_applied' = desc_applied + 1
    /\ k' = k + 1
    /\ UNCHANGED <<script, key_order, disk_data, disk_desc, orig_data, orig_desc, skilldata,
                   mech_changes, desc_changes, pc, i, j, mech_applied, failed, written, run>>

DescApply ==
    /\ InDesc
    /\ HasField
    /\ Contains(entry[desc_field], old_text)
    /\ HasName
    /\ skilldesc' = SetField(skilldesc, desc_key, desc_field,
                             ReplaceFirst(entry[desc_field], old_text, new_text))
    /\ Emit(<<<<"desc_ok", desc_id, entry["name"], desc_field, old_text, new_text>>>>)
    /\ desc_applied' = desc_applied + 1
    /\ k' = k + 1
    /\ UNCHANGED <<script, key_order, disk_data, disk_desc, orig_data, orig_desc, skilldata,
                   mech_changes, desc_changes, pc, i, j, mech_applied, failed, written, run>>

\* the field is assigned, then the print's entry['name'] raises KeyError before applied += 1
DescApplyKeyError ==
    /\ InDesc
    /\ HasField
    /\ Contains(entry[desc_field], old_text)
    /\ ~HasName
    /\ skilldesc' = SetField(skilldesc, desc_key, desc_field,
                             ReplaceFirst(entry[desc_field], old_text, new_text))
    /\ pc' = "raised"
    /\ UNCHANGED <<script, key_order, disk_data, disk_desc, orig_data, orig_desc, skilldata,
                   mech_changes, desc_changes, i, j, k, mech_applied, desc_applied, failed,
                   written, out, run>>

DescDone ==
    /\ pc = "desc"
    /\ k > Len(desc_changes)
    /\ Emit(IF script = "main" THEN <<<<"summary", desc_applied, failed>>>>
            ELSE <<<<"summary", mech_applied, desc_applied, failed>>>>)
    /\ pc' = "gate"
    /\ UNCHANGED <<script, key_order, disk_data, disk_desc, orig_data, orig_desc,
                   skilldata, skilldesc,
                   mech_changes, desc_changes, i, j, k, mech_applied, desc_applied, failed,
                   written, run>>

----------------------------------------------------------------------------
(* The gate and the two saves *)

\* the failure test placed after the first save
GateFailAfterSave ==
    /\ pc = "gate"
    /\ failed > 0
    /\ Emit(<<<<"saving">>, <<"failed_banner", failed>>>>)
    /\ disk_data' = save_json(skilldata, key_order.data)
    /\ written' = written \cup {"skilldata.json"}
    /\ pc' = "exit1"
    /\ UNCHANGED <<script, key_order, disk_desc, orig_data, orig_desc, skilldata, skilldesc,
                   mech_changes, desc_changes, i, j, k, mech_applied, desc_applied, failed,
                   run>>

\* if desc_failed > 0 (main) / if failed > 0 (pvp): sys.exit(1)
GateFail ==
    /\ pc = "gate"
    /\ failed > 0
    /\ Emit(<<<<"failed_banner", failed>>>>)
    /\ pc' = "exit1"
    /\ UNCHANGED <<script, key_order, disk_data, disk_desc, orig_data, orig_desc,
                   skilldata, skilldesc,
                   mech_changes, desc_changes, i, j, k, mech_applied, desc_applied, failed,
                   written, run>>

SaveData ==
    /\ pc = "gate"
    /\ ~(failed > 0)
    /\ Emit(<<<<"saving">>>>)
    /\ disk_data' = save_json(skilldata, key_order.data)
    /\ written' = written \cup {"skilldata.json"}
    /\ pc' = "save_desc"
    /\ UNCHANGED <<script, key_order, disk_desc, orig_data, orig_desc, skilldata, skilldesc,
                   mech_changes, desc_changes, i, j, k, mech_applied, desc_applied, failed,
                   run>>

SaveDesc ==
    /\ pc = "save_desc"
    /\ disk_desc' = save_json(skilldesc, key_order.desc)
    /\ written' = written \cup {"skilldesc-en.json"}
    /\ Emit(<<<<"done">>>>)
    /\ pc' = "exit0"
    /\ UNCHANGED <<script, key_order, disk_data, orig_data, orig_desc, skilldata, skilldesc,
                   mech_changes, desc_changes, i, j, k, mech_applied, desc_applied, failed,
                   run>>

----------------------------------------------------------------------------
(* The script is started again on the files the last run left *)

Ended == pc \in {"exit0", "exit1", "raised"}

Rerun ==
    /\ Ended
    /\ pc = "exit0" => run <= MaxReruns
    /\ run' = IF pc = "exit0" THEN run + 1 ELSE run
    /\ orig_data' = disk_data
    /\ orig_desc' = disk_desc
    /\ Fresh
    /\ pc' = "load"
    /\ UNCHANGED <<script, disk_data, disk_desc, mech_changes, desc_changes>>

----------------------------------------------------------------------------

Next ==
    \/ Load
    \/ MechNotFound
    \/ MechWrite
    \/ MechKeyError
    \/ MechDone
    \/ DescNotFound
    \/ DescFieldKeyError
    \/ DescNoMatch
    \/ DescNoMatchKeyError
    \/ DescApply
    \/ DescApplyKeyError
    \/ DescDone
    \/ GateFail
    \/ SaveData
    \/ SaveDesc
    \/ Rerun

Spec == Init /\ [][Next]_vars

----------------------------------------------------------------------------
(* Vocabulary of the properties *)

BothFiles == {"skilldata.json", "skilldesc-en.json"}

\* the lines of out whose tag is in tags
Lines(tags) == {n \in 1..Len(out) : out[n][1] \in tags}

\* the failing edits met so far: a lookup miss in either store, or an absent old_text
FailedEdits == Cardinality(Lines({"mech_warn", "desc_warn_id", "desc_warn_text"}))

\* the entries of the mechanical table whose id the loaded mechanical store lacks
MechMisses == Cardinality({n \in 1..Len(mech_changes) :
                               str(mech_changes[n][1]) \notin DOMAIN load_json(orig_data)})

\* old occurs in text as a contiguous substring
OccursIn(old, text) ==
    \E p \in 0..(Len(text) - Len(old)) : \A n \in 1..Len(old) : text[p + n] = old[n]

\* result is text with its leftmost occurrence of old, and nothing else, replaced by new
LeftmostReplaced(text, old, new, result) ==
    \E p \in 0..(Len(text) - Len(old)) :
        /\ \A n \in 1..Len(old) : text[p + n] = old[n]
        /\ \A q \in 0..(p - 1) : \E n \in 1..Len(old) : text[q + n] # old[n]
        /\ Len(result) = Len(text) - Len(old) + Len(new)
        /\ \A n \in 1..Len(result) :
               result[n] = IF n <= p THEN text[n]
                           ELSE IF n <= p + Len(new) THEN new[n - p]
                           ELSE text[n - Len(new) + Len(old)]

\* every record other than key, and every field of key other than field, is as before
OnlyFieldChanged(before, after, key, field) ==
    /\ DOMAIN after = DOMAIN before
    /\ \A q \in DOMAIN before :
           /\ DOMAIN after[q] = DOMAIN before[q]
           /\ \A f \in DOMAIN before[q] : (q # key \/ f # field) => after[q][f] = before[q][f]

----------------------------------------------------------------------------
(* C1: at the end of a run on which the gate decided, both files have been *)
(* written if and only if no edit failed (no lookup miss in either store,  *)
(* no absent old_text), and a run with a failing edit leaves both files as *)
(* they were before it.                                                    *)
C1_WrittenIffNoFailedEdit ==
    pc \in {"exit0", "exit1"} =>
        /\ (written = BothFiles) <=> (FailedEdits = 0)
        /\ FailedEdits > 0 => disk_data = orig_data /\ disk_desc = orig_desc

(* C2: the process exits with code 0 only when no lookup and no substring  *)
(* precondition failed and both files were rewritten; when one failed, the *)
(* run does not exit 0 and writes no file.                                 *)
C2_ExitContract ==
    /\ pc = "exit0" => FailedEdits = 0 /\ written = BothFiles
    /\ (Ended /\ FailedEdits > 0) => pc # "exit0" /\ written = {}

(* C3: a run that ends at exit 0 or at the gate's exit 1 has written both  *)
(* files or neither.                                                       *)
C3_BothOrNeither ==
    pc \in {"exit0", "exit1"} => written = {} \/ written = BothFiles

\* a run ended at exit 0 with both files rewritten from the edited stores
C3_Witness ==
    /\ pc = "exit0"
    /\ written = BothFiles
    /\ load_json(disk_data) # load_json(orig_data)
    /\ load_json(disk_desc) # load_json(orig_desc)

(* C4: a description edit whose old_text occurs in the field replaces the  *)
(* leftmost occurrence only, leaving every later occurrence and any        *)
(* occurrence that new_text brings in, and the applied count grows by one. *)
C4_FirstOccurrenceOnly ==
    [][(InDesc /\ HasField /\ OccursIn(old_text, entry[desc_field])) =>
          /\ LeftmostReplaced(entry[desc_field], old_text, new_text,
                              skilldesc'[desc_key][desc_field])
          /\ desc_applied' = desc_applied + 1]_vars

\* the same on a record that holds name, where the print after the assignment succeeds
FirstOccurrenceOnNamedRecord ==
    [][(InDesc /\ HasField /\ HasName /\ OccursIn(old_text, entry[desc_field])) =>
          /\ LeftmostReplaced(entry[desc_field], old_text, new_text,
                              skilldesc'[desc_key][desc_field])
          /\ OnlyFieldChanged(skilldesc, skilldesc', desc_key, desc_field)
          /\ desc_applied' = desc_applied + 1
          /\ failed' = failed]_vars

(* C5: a description edit whose old_text does not occur in the field       *)
(* leaves the description store unchanged, adds one to the failure count,  *)
(* leaves the applied count, and the loop goes on with the next edit.      *)
C5_NoMatchCountedAndSkipped ==
    [][(InDesc /\ HasField /\ ~OccursIn(old_text, entry[desc_field])) =>
          /\ skilldesc' = skilldesc
          /\ failed' = failed + 1
          /\ desc_applied' = desc_applied
          /\ pc' = "desc"
          /\ k' = k + 1]_vars

\* the same on a record that holds name, where the warning is printed
NoMatchOnNamedRecord ==
    [][(InDesc /\ HasField /\ HasName /\ ~OccursIn(old_text, entry[desc_field])) =>
          /\ skilldesc' = skilldesc
          /\ failed' = failed + 1
          /\ desc_applied' = desc_applied
          /\ pc' = "desc"
          /\ k' = k + 1]_vars

(* C6: a mechanical entry whose id the mechanical store lacks adds one to  *)
(* the failure count, writes no field, and the loop goes on with the next  *)
(* entry.                                                                  *)
C6_MechMissCounted ==
    [][(InMech /\ mech_key \notin DOMAIN skilldata) =>
          /\ failed' = failed + 1
          /\ skilldata' = skilldata
          /\ pc' = "mech"
          /\ i' = i + 1]_vars

(* C7: a description edit whose id the description store lacks adds one to *)
(* the failure count, leaves the store, and does not end the batch: every  *)
(* later edit is attempted and, at the end of the run, the failure count   *)
(* is the number of failing edits (in the pvp script, whose counter is     *)
(* shared, with the mechanical misses counted before).                     *)
C7_DescMissIsolated ==
    /\ [][(InDesc /\ desc_key \notin DOMAIN skilldesc) =>
             /\ failed' = failed + 1
             /\ skilldesc' = skilldesc
             /\ pc' = "desc"
             /\ k' = k + 1]_vars
    /\ []((Ended /\ Lines({"desc_warn_id"}) # {}) =>
             /\ k = Len(desc_changes) + 1
             /\ failed = Cardinality(Lines({"desc_warn_id", "desc_warn_text"}))
                           + (IF script = "pvp" THEN MechMisses ELSE 0))

(* C8: a mechanical edit (id, field, v) on a store whose record id holds   *)
(* field sets that field to v as given, leaves every other field of the    *)
(* record and every other record, and adds one to the applied count.       *)
C8_ExactOverwrite ==
    [][(InMech /\ mech_key \in DOMAIN skilldata
              /\ mech_field \in DOMAIN skilldata[mech_key]) =>
          /\ skilldata'[mech_key][mech_field] = new_val
          /\ OnlyFieldChanged(skilldata, skilldata', mech_key, mech_field)
          /\ mech_applied' = mech_applied + 1]_vars

\* a field has been overwritten in a store that holds another record, beside another field
C8_Witness ==
    /\ pc = "mech"
    /\ mech_applied >= 1
    /\ \E q \in DOMAIN skilldata : \E f, g \in DOMAIN skilldata[q] :
           /\ skilldata[q][f] # load_json(orig_data)[q][f]
           /\ skilldata[q][f] > LoadedVal(f)
           /\ g # f
           /\ DOMAIN skilldata # {q}

C10_NoExceptionPropagates == pc # "raised"

----------------------------------------------------------------------------
(* C11: the Mechanical Editor only overwrites fields that exist. In every
   reachable state the mechanical store in memory (once loaded) and the
   mechanical store on disk hold the records the run loaded, each with the
   set of field names it had when loaded: no edit creates a field. *)

SameFieldNames(store, loaded) ==
    /\ DOMAIN store = DOMAIN loaded
    /\ \A key \in DOMAIN loaded : DOMAIN store[key] = DOMAIN loaded[key]

\* C11: in memory and on disk, every mechanical record keeps its loaded field names
C11_FieldNamesKept ==
    /\ pc # "load" => SameFieldNames(skilldata, load_json(orig_data))
    /\ SameFieldNames(load_json(disk_data), load_json(orig_data))

\* an entry has written one field of a record and its next field is one the record lacks
C11_Witness ==
    /\ pc = "raised"
    /\ i <= Len(mech_changes)
    /\ j > 1
    /\ HasKey(skilldata, mech_key)
    /\ mech_field \notin DOMAIN skilldata[mech_key]
    /\ skilldata # load_json(orig_data)

----------------------------------------------------------------------------
(* C12: the name of a description record is never mutated. In every reachable
   state each record loaded with a name holds that name, in memory (once
   loaded) and on disk, and the name is only read: every diagnostic line that
   quotes a name quotes the loaded one. *)

NamesKept(store, loaded) ==
    \A key \in DOMAIN loaded :
        "name" \in DOMAIN loaded[key] =>
            /\ key \in DOMAIN store
            /\ "name" \in DOMAIN store[key]
            /\ store[key]["name"] = loaded[key]["name"]

\* C12: in memory, on disk and in what is printed, every name is the loaded name
C12_NameNeverMutated ==
    /\ pc # "load" => NamesKept(skilldesc, load_json(orig_desc))
    /\ NamesKept(load_json(disk_desc), load_json(orig_desc))
    /\ \A n \in Lines({"desc_ok", "desc_warn_text"}) :
           out[n][3] = load_json(orig_desc)[str(out[n][2])]["name"]

\* a description edit has rewritten a field of a named record and the stores were saved
C12_Witness ==
    /\ pc = "exit0"
    /\ desc_applied > 0
    /\ load_json(disk_desc) # load_json(orig_desc)
    /\ \E key \in DOMAIN skilldesc :
           /\ "name" \in DOMAIN skilldesc[key]
           /\ skilldesc[key] # load_json(orig_desc)[key]

----------------------------------------------------------------------------
(* C13: loading both files, applying no edit and saving writes back stores
   equal to the loaded ones: same ids, same fields, same values, ids in the
   same order. Hence every run that saves persists unchanged, and in its
   place, each record that no edit of the tables targets. *)

\* what json.load reads of a file: its members and their order, not its whitespace
Content(file) == [doc |-> file.doc, keys |-> file.keys]

Targeted(changes) == {str(changes[n][1]) : n \in 1..Len(changes)}

Untouched(file, loaded, changes) ==
    /\ file.keys = loaded.keys
    /\ DOMAIN file.doc = DOMAIN loaded.doc
    /\ \A key \in DOMAIN loaded.doc \ Targeted(changes) : file.doc[key] = loaded.doc[key]

----------------------------------------------------------------------------
(* C14: the console reports every edit. *)

DiagTags == {"mech_ok", "mech_warn", "desc_ok", "desc_warn_id", "desc_warn_text",
             "desc_current"}

Count(tags) == Cardinality(Lines(tags))

\* the attempts the mechanical loop makes on entry n: one per field, or the lookup
EntryAttempts(n) ==
    IF str(mech_changes[n][1]) \in DOMAIN load_json(orig_data)
    THEN Len(mech_changes[n][2]) ELSE 1

RECURSIVE AttemptsBefore(_)
AttemptsBefore(n) == IF n <= 1 THEN 0 ELSE AttemptsBefore(n - 1) + EntryAttempts(n - 1)

LoopsDone == pc \in {"gate", "save_desc", "exit0", "exit1"}

SummaryLine == IF script = "main" THEN <<"summary", desc_applied, failed>>
               ELSE <<"summary", mech_applied, desc_applied, failed>>

(* C14 as stated: when both loops have ended the console holds exactly one
   diagnostic line per attempted edit (each mechanical field edit, each
   description edit, each lookup miss, each substring miss) and one summary
   line giving the applied and failed counts. *)
C14_OneLinePerEdit ==
    LoopsDone =>
        /\ Count(DiagTags) = AttemptsBefore(Len(mech_changes) + 1) + Len(desc_changes)
        /\ \A n \in Lines({"summary"}) : out[n] = SummaryLine
        /\ Count({"summary"}) = 1

(* C14 amended: at every point of a run the console holds one diagnostic
   line for each attempt made so far that ran to its end (a mechanical field
   written, a description edit applied, a lookup miss) and two for each
   substring miss, the warning and the current value of the field; the
   lines of each kind agree with the counters; once both loops have ended
   every edit of both tables has been enumerated and exactly one summary
   line gives the applied and failed counts. *)
C14_LinesPerEdit ==
    /\ Count(DiagTags) = AttemptsBefore(i) + (j - 1) + (k - 1) + Count({"desc_warn_text"})
    /\ Count({"desc_current"}) = Count({"desc_warn_text"})
    /\ Count({"mech_ok"}) = mech_applied
    /\ Count({"desc_ok"}) = desc_applied
    /\ Count({"desc_warn_id", "desc_warn_text"})
           + (IF script = "pvp" THEN Count({"mech_warn"}) ELSE 0) = failed
    /\ script = "main" /\ pc \notin {"load", "mech", "raised"} =>
           \E n \in 1..Len(out) : out[n] = <<"mech_summary", mech_applied>>
    /\ LoopsDone =>
           /\ i = Len(mech_changes) + 1
           /\ k = Len(desc_changes) + 1
           /\ Count({"summary"}) = 1
           /\ \A n \in Lines({"summary"}) : out[n] = SummaryLine
    /\ pc = "gate" => out[Len(out)] = SummaryLine

\* both loops have ended after a field written, an edit applied and a substring miss
C14_Witness ==
    /\ pc = "gate"
    /\ Count({"mech_ok"}) > 0
    /\ Count({"desc_ok"}) > 0
    /\ Count({"desc_warn_text"}) > 0
    /\ Count(DiagTags) > AttemptsBefore(Len(mech_changes) + 1) + Len(desc_changes)

----------------------------------------------------------------------------
(* C15: description edits run strictly in list order and each is tested
   against the value its field has after all earlier edits. In every state
   the counters, and while the description loop runs and after it has ended
   the store, are those obtained by taking the first k - 1 edits one after the
   other from the loaded store, each applied to the result of those before
   it when its old text occurs there and counted as failed, without effect
   on the later ones, when it does not (a run ended by an exception holds
   that store or the one after k edits); each step of the loop moves to the
   next edit of the list, and a step that counts a failure leaves the store
   as it is and the loop running. *)

RECURSIVE After(_)
\* the store and the outcomes after the first n edits of the list, taken in order
After(n) ==
    IF n = 0 THEN [store |-> load_json(orig_desc), applied |-> 0, failed |-> 0]
    ELSE LET prev == After(n - 1)
             key == str(desc_changes[n][1])
             field == desc_changes[n][2]
             old == desc_changes[n][3]
             new == desc_changes[n][4]
             hit == /\ key \in DOMAIN prev.store
                    /\ field \in DOMAIN prev.store[key]
                    /\ OccursIn(old, prev.store[key][field])
         IN  IF hit
             THEN [store |-> [prev.store EXCEPT
                                 ![key][field] = ReplaceFirst(@, old, new)],
                   applied |-> prev.applied + 1, failed |-> prev.failed]
             ELSE [prev EXCEPT !.failed = @ + 1]

DescFailed == failed - (IF script = "pvp" THEN MechMisses ELSE 0)

InListOrder ==
    pc # "load" =>
        /\ desc_applied = After(k - 1).applied
        /\ i > Len(mech_changes) => DescFailed = After(k - 1).failed
        /\ pc # "raised" => skilldesc = After(k - 1).store
        /\ pc = "raised" =>
               \/ skilldesc = After(k - 1).store
               \/ k <= Len(desc_changes) /\ skilldesc = After(k).store

\* C15: the edits take effect in list order, each on the result of those before it
C15_ListOrder ==
    /\ []InListOrder
    /\ [][pc = "desc" /\ pc' = "desc" => k' = k + 1]_vars
    /\ [][pc = "desc" /\ failed' # failed =>
              pc' = "desc" /\ failed' = failed + 1 /\ skilldesc' = skilldesc]_vars

\* two edits of one field were applied, the old text of the second occurring only
\* in the result of the first
C15_Witness ==
    /\ LoopsDone
    /\ Len(desc_changes) = 2
    /\ desc_changes[1][1] = desc_changes[2][1]
    /\ desc_changes[1][2] = desc_changes[2][2]
    /\ desc_applied = 2
    /\ ~OccursIn(desc_changes[2][3],
                 load_json(orig_desc)[str(desc_changes[2][1])][desc_changes[2][2]])

\* a failed edit was followed by an applied edit of the same field
C15_FailedThenApplied ==
    /\ LoopsDone
    /\ Len(desc_changes) = 2
    /\ desc_changes[1][1] = desc_changes[2][1]
    /\ desc_changes[1][2] = desc_changes[2][2]
    /\ Lines({"desc_warn_text"}) # {}
    /\ desc_applied = 1
    /\ out[Len(out) - 1][1] = "desc_ok"

----------------------------------------------------------------------------
(* C16: every run goes load, mechanical loop over the whole table,
   description loop over the whole list, gate, write of the mechanical file,
   write of the description file, and never out of that order. No file is
   written before every edit of both tables has been attempted, and the
   description file is never written unless the mechanical file was written
   earlier in the same run. *)

PhaseOrder == {<<"load", "mech">>, <<"mech", "desc">>, <<"desc", "gate">>,
               <<"gate", "save_desc">>, <<"save_desc", "exit0">>,
               <<"gate", "exit1">>, <<"mech", "raised">>, <<"desc", "raised">>,
               <<"exit0", "load">>, <<"exit1", "load">>, <<"raised", "load">>}

AllAttempted == i = Len(mech_changes) + 1 /\ k = Len(desc_changes) + 1

PhasesInOrder ==
    /\ pc = "mech" => k = 1
    /\ pc \in {"desc", "gate", "save_desc", "exit0", "exit1"} => i = Len(mech_changes) + 1
    /\ LoopsDone => AllAttempted
    /\ written # {} => AllAttempted /\ "skilldata.json" \in written
    /\ disk_data # orig_data => "skilldata.json" \in written
    /\ disk_desc # orig_desc => written = BothFiles

\* C16: the phases follow the order of main() and no file is written before its turn
C16_PhaseOrder ==
    /\ []PhasesInOrder
    /\ [][pc' # pc => <<pc, pc'>> \in PhaseOrder]_vars
    /\ [][disk_data' # disk_data => pc = "gate" /\ AllAttempted]_vars
    /\ [][disk_desc' # disk_desc => pc = "save_desc" /\ "skilldata.json" \in written]_vars

\* the mechanical file is rewritten and the description file not yet, after edits of
\* both tables were applied
C16_Witness ==
    /\ pc = "save_desc"
    /\ written = {"skilldata.json"}
    /\ disk_data # orig_data
    /\ disk_desc = orig_desc
    /\ mech_applied > 0
    /\ desc_applied > 0
    /\ skilldesc # load_json(orig_desc)

----------------------------------------------------------------------------
(* C17: an edit whose field is 'both' applies the replacement to both texts
   of the record. Whenever the loop takes an edit with field 'both' on a
   record that has a name and holds the old text in its description and in
   its concise text, the step replaces the leftmost occurrence in each of
   the two and the loop goes on. *)

C17_BothAppliesToBoth ==
    [][(/\ InDesc
        /\ desc_field = "both"
        /\ HasKey(skilldesc, desc_key)
        /\ {"name"} \cup DescFields \subseteq DOMAIN entry
        /\ \A f \in DescFields : OccursIn(old_text, entry[f]))
       => /\ pc' = "desc"
          /\ \A f \in DescFields :
                 LeftmostReplaced(entry[f], old_text, new_text, skilldesc'[desc_key][f])]_vars

----------------------------------------------------------------------------
(* C18: the counters of the two loops. *)

\* the (entry, field) pairs of the mechanical table whose id the loaded store holds
PresentPairs ==
    {<<n, m>> \in (1..Len(mech_changes)) \X (1..Cardinality(MechFields)) :
        /\ m <= Len(mech_changes[n][2])
        /\ str(mech_changes[n][1]) \in DOMAIN load_json(orig_data)}

(* C18 as stated: on every run whose description loop completes, applied +
   failed equals the length of the edit list, and the mechanical applied
   count equals the number of (id, field) pairs of the table whose id is in
   the store. *)
C18_CountedOnce ==
    LoopsDone =>
        /\ desc_applied + failed = Len(desc_changes)
        /\ mech_applied = Cardinality(PresentPairs)

CountedSoFar ==
    /\ (pc = "desc" \/ LoopsDone) => desc_applied + DescFailed = k - 1
    /\ LoopsDone =>
           /\ desc_applied + failed =
                  Len(desc_changes) + (IF script = "pvp" THEN MechMisses ELSE 0)
           /\ mech_applied = Cardinality(PresentPairs)

(* C18 amended: each description edit is counted exactly once, as applied or
   as failed, and the counters only grow during the loop; when the loop has
   ended applied + failed equals the length of the list, plus the number of
   mechanical lookup misses in the PvP script, whose failure counter is
   shared by the two loops; the mechanical applied count equals the number
   of (id, field) pairs of the table whose id is in the store. *)
C18_CountedOncePerLoop ==
    /\ []CountedSoFar
    /\ [][pc = "desc" /\ pc' = "desc" =>
              \/ desc_applied' = desc_applied + 1 /\ failed' = failed
              \/ desc_applied' = desc_applied /\ failed' = failed + 1]_vars
    /\ [][pc = "mech" /\ pc' = "mech" =>
              /\ mech_applied' \in {mech_applied, mech_applied + 1}
              /\ failed' \in {failed, failed + 1}]_vars

\* the PvP script has ended its loops after a mechanical lookup miss
C18_Witness ==
    /\ LoopsDone
    /\ script = "pvp"
    /\ MechMisses > 0
    /\ mech_applied > 0
    /\ desc_applied > 0
    /\ desc_applied + failed > Len(desc_changes)

----------------------------------------------------------------------------
(* C19: a run whose tables hold an edit that makes its loop end abnormally
   (a mechanical edit naming a field its existing record lacks, a
   description edit on an existing record that lacks the field or the
   name) stops before the gate and before any save: it never reaches the
   gate, writes neither file and leaves both files as loaded, whatever the
   edits made in memory before; and a run ends abnormally in these cases
   only. *)

MechAbnormal ==
    \E n \in 1..Len(mech_changes) :
        LET key == str(mech_changes[n][1])
            loaded == load_json(orig_data)
        IN  /\ key \in DOMAIN loaded
            /\ \E m \in 1..Len(mech_changes[n][2]) :
                   mech_changes[n][2][m][1] \notin DOMAIN loaded[key]

DescAbnormal ==
    \E n \in 1..Len(desc_changes) :
        LET key == str(desc_changes[n][1])
            loaded == load_json(orig_desc)
        IN  /\ key \in DOMAIN loaded
            /\ \/ desc_changes[n][2] \notin DOMAIN loaded[key]
               \/ "name" \notin DOMAIN loaded[key]

\* C19: an input that ends a loop abnormally never reaches the gate or a save
C19_AbnormalEndWritesNothing ==
    /\ (MechAbnormal \/ DescAbnormal) =>
           /\ ~LoopsDone
           /\ written = {}
           /\ disk_data = orig_data
           /\ disk_desc = orig_desc
    /\ pc = "raised" => MechAbnormal \/ DescAbnormal

\* the run stopped on the second field of an entry whose first field it had written
C19_Witness ==
    /\ pc = "raised"
    /\ i <= Len(mech_changes)
    /\ j = 2
    /\ skilldata[mech_key][updates[1][1]] = updates[1][2]
    /\ load_json(orig_data)[mech_key][updates[1][1]] # updates[1][2]
    /\ written = {}
    /\ disk_data = orig_data

\* the run stopped in the description loop with both stores edited in memory
C19_DescWitness ==
    /\ pc = "raised"
    /\ i > Len(mech_changes)
    /\ skilldata # load_json(orig_data)
    /\ skilldesc # load_json(orig_desc)
    /\ written = {}
    /\ disk_desc = orig_desc

----------------------------------------------------------------------------
(* C20: the edits are narrowly scoped. No step adds or removes a record: each
   store in memory holds the ids it was loaded with. The mechanical loop
   leaves the description store unchanged and the description loop leaves
   the mechanical store unchanged. A step of either loop on (id, field)
   leaves every other field of record id, and every other record, as they
   were; a step that finds no record or no field to edit changes nothing. *)

SameIds ==
    pc # "load" =>
        /\ DOMAIN skilldata = DOMAIN load_json(orig_data)
        /\ DOMAIN skilldesc = DOMAIN load_json(orig_desc)

MechFrame ==
    pc = "mech" =>
        /\ skilldesc' = skilldesc
        /\ IF InMech /\ HasKey(skilldata, mech_key)
           THEN OnlyFieldChanged(skilldata, skilldata', mech_key, mech_field)
           ELSE skilldata' = skilldata

DescFrame ==
    pc = "desc" =>
        /\ skilldata' = skilldata
        /\ IF InDesc /\ HasField
           THEN OnlyFieldChanged(skilldesc, skilldesc', desc_key, desc_field)
           ELSE skilldesc' = skilldesc

\* C20: ids are kept, each loop edits its own store, each step at most one field
C20_EditsNarrowlyScoped ==
    /\ []SameIds
    /\ [][MechFrame /\ DescFrame]_vars
    /\ [][(pc = "gate" \/ pc = "save_desc") =>
              skilldata' = skilldata /\ skilldesc' = skilldesc]_vars

\* an edit was applied to one of two description records that hold the same texts
C20_Witness ==
    /\ LoopsDone
    /\ mech_applied > 0
    /\ desc_applied > 0
    /\ DOMAIN skilldesc = Keys
    /\ load_json(orig_desc)["1"] = load_json(orig_desc)["2"]
    /\ skilldesc["1"] # skilldesc["2"]
    /\ \E key \in Keys : skilldesc[key] = load_json(orig_desc)[key]

====
